---------------------------- MODULE Spec2Model ----------------------------
(***************************************************************************)
(* Model of the OTP subsystem of rgram: the Mongoose OTP model of the      *)
(* Express API (src/unnamed/part_004), the OTP model of the Next.js         *)
(* application (src/lib/models/OTP.ts), and the send and resend handlers     *)
(* that call them (src/unnamed/part_011, src/pages/api/auth/otp/send.ts).    *)
(*                                                                         *)
(* The collection is a set of documents.  Time is an integer number of     *)
(* seconds; Date.now() is the variable now.  A string is modelled by what  *)
(* the schema and bcrypt need of it: which digits it was made from and     *)
(* whether it is the plaintext (6 characters) or its bcrypt hash (60).     *)
(* Addresses are valid and already lowercase.                               *)
(*                                                                         *)
(* Spec takes each call of the Express model as one step (requests served  *)
(* one after another); SpecRetry is Spec with the history of the rejected   *)
(* verifications.  SpecOverlap lets the calls of several requests on one     *)
(* key interleave at their awaits.  Spec_ts is the Next.js model, SpecScope  *)
(* both models on several addresses and purposes, SpecHandlers the send     *)
(* and resend handlers, SpecVerify the verify handlers (src/unnamed/part_011, *)
(* src/unnamed/part_001), SpecOverlap_ts the overlapping calls of the        *)
(* Next.js model.  SpecFollow is the follow graph with its counters          *)
(* (src/models/Follow.js, src/controllers/settingsController.js) and         *)
(* SpecLikes the likes of a post (src/models/Post.js, src/unnamed/part_013). *)
(***************************************************************************)
EXTENDS Integers, FiniteSets, Sequences, TLC

(* ------------------------------ bounds -------------------------------- *)

\* number of documents ever inserted (ObjectIds 1..MaxIssued)
MaxIssued == 3

\* number of callers whose calls overlap
NumCallers == 2

\* the number of codes issued before the requests to the verify handlers
MaxVerifyIssued == 2

\* the follow requests stop when a counter has reached this value
MaxCount == 3

\* the like requests stop when the array likes has this length
MaxLikes == 3

\* the ids of the users that have a User record, and an id that has none
UserIds == {"u1", "u2"}
NoUserId == "u0"

\* the id of the one post, and an id that has no post
PostIds == {"p1"}
NoPostId == "p0"

\* the instants, in seconds, at which calls are made: the clock moves from
\* one to the next.  They put a call less than, exactly and more than 60
\* seconds, and less than, exactly and more than 10 minutes, after another.
Instants == <<0, 30, 60, 90, 600, 630, 660, 690>>

\* the addresses, purposes and 6-digit codes the calls are made with
Emails == {"a@x.com"}
Purposes == {"signup", "login"}

\* the purposes the requests to the handlers are made with: the schema's
\* enum ['signup', 'login', 'password_reset', 'email_verification']
AllPurposes == {"signup", "login", "password_reset", "email_verification"}
Codes == {123456, 654321}

\* the instants at which the calls of the Next.js application are made: a
\* call less and more than 60 seconds, and 10 minutes, after another
Instants_ts == <<0, 30, 90, 600>>

\* the keys (address, purpose) of the calls that are checked for staying
\* within their key: two purposes of one address, two addresses of one
\* purpose
ScopeKeys == {<<"a@x.com", "signup">>, <<"a@x.com", "login">>, <<"b@x.com", "signup">>}

\* the instants of those calls: a resend follows more than 60 seconds after
\* an issue
ScopeInstants == <<0, 90>>

\* the key the overlapping calls are made on
RaceEmail == "a@x.com"
RacePurpose == "signup"

(* ------------------------- program constants -------------------------- *)

\* (parseInt(process.env.OTP_EXPIRE_MINUTES) || 10), environment unset
OTP_EXPIRE_MINUTES == 10
\* digits: 6, and minlength/maxlength of the schema's code path
CodeLength == 6
\* length of a bcryptjs hash string ("$2a$12$" + 22 salt + 31 digest)
BcryptHashLength == 60
\* attempts: max: [5, ...] of the schema
AttemptsSchemaMax == 5
\* if (otp.attempts >= 5)
MaxAttempts == 5
\* createdAt: { $gte: new Date(Date.now() - 60 * 1000) }
ResendWindowSeconds == 60

VARIABLES
  otps,      \* the OTP collection: a set of documents
  now,       \* Date.now(), in seconds
  nextId,    \* the next ObjectId
  last,      \* the call that has just returned: its name, arguments and
             \* outcome ("none" once the clock has moved on)
  calls,     \* the calls in flight when requests overlap: per caller, how
             \* far its createOTP or verifyOTP has run and what it holds
  compares,  \* per ObjectId, how many bcrypt.compare calls verifyOTP has
             \* made against that document
  otpRecords, \* the OTP collection of the Next.js application
             \* (src/lib/models/OTP.ts): a set of documents
  users,     \* the addresses of the registered users (the User collection)
  follows,         \* the Follow collection: records of follower and following
  followersCount,  \* per user, the field followersCount of its User record
  followingCount,  \* per user, the field followingCount of its User record
  likes,           \* the array likes of the one post
  likesCount,      \* the field likesCount of that post
  rejected   \* history: the keys <<email, purpose, again>> for which verifyOTP
             \* has returned "too many attempts" or "not found or expired"
             \* since the last createOTP or resendOTP of the key that
             \* succeeded (again: it has done so more than once)

\* the state of the follow graph and of the post
social == <<follows, followersCount, followingCount, likes, likesCount>>

vars == <<otps, now, nextId, last, calls, compares, otpRecords, users, rejected,
          social>>

(* ------------------------------ strings ------------------------------- *)

\* the 6-digit string generateOTP returns / a caller submits
Plain(c) == [alg |-> "plain", digits |-> c]

\* bcrypt.hash(s, 12): a 60-character string determined by s (the salt is
\* carried inside the hash and plays no part in compare)
BcryptHash(s) == [alg |-> "bcrypt", digits |-> s.digits]

\* bcrypt.compare(s, hash)
BcryptCompare(s, hash) == hash.alg = "bcrypt" /\ s.alg = "plain" /\ hash.digits = s.digits

StrLen(s) == IF s.alg = "plain" THEN CodeLength ELSE BcryptHashLength

(* ------------------------------ schema -------------------------------- *)

\* new this({email, code, purpose, expiresAt}) with the schema defaults
NewOTP(id, email, code, purpose, t) ==
  [ id        |-> id,
    email     |-> email,
    code      |-> code,
    purpose   |-> purpose,
    expiresAt |-> t + OTP_EXPIRE_MINUTES * 60,
    attempts  |-> 0,
    isUsed    |-> FALSE,
    createdAt |-> t ]

\* mutant of ValidateOTP: the maxlength validator of code left out
ValidateOTP_NoMaxLength(doc) ==
  /\ StrLen(doc.code) >= CodeLength
  /\ doc.attempts <= AttemptsSchemaMax

\* The schema's validators, which Mongoose runs as the first pre('save')
\* hook of every save(), before otpSchema.pre('save').  A save validates the
\* paths the document holds, the ones loaded by findOne included, not only
\* the modified ones (the schema does not set validateModifiedOnly).  So a
\* new document has its plaintext code checked, and a document read back
\* from the collection has its stored code, the hash, checked again:
\*   code:     minlength 6, maxlength 6
\*   attempts: max 5
ValidateOTP(doc) ==
  /\ StrLen(doc.code) >= CodeLength
  /\ StrLen(doc.code) <= CodeLength
  /\ doc.attempts <= AttemptsSchemaMax

\* otpSchema.pre('save'): hash the code when the code path was modified
PreSave(doc, codeModified) ==
  IF codeModified THEN [doc EXCEPT !.code = BcryptHash(doc.code)] ELSE doc

\* the document with this _id, as a set
ById(db, id) == {d \in db : d.id = id}

\* mutant of Save: only the modified path is validated
Save_ValidateModifiedOnly(db, doc, path) ==
  IF (path = "attempts" /\ doc.attempts > AttemptsSchemaMax) \/ ById(db, doc.id) = {}
    THEN [ok |-> FALSE, db |-> db]
    ELSE [ok |-> TRUE,
          db |-> {IF d.id = doc.id THEN [d EXCEPT ![path] = doc[path]] ELSE d : d \in db}]

\* doc.save() of a document read from the collection, with one modified
\* path: validation, the pre('save') hook, then updateOne({ _id }, { $set:
\* { path: value } }).  The save throws when validation fails or when no
\* document has that _id any more.
Save(db, doc, path) ==
  IF ~ValidateOTP(doc) \/ ById(db, doc.id) = {}
    THEN [ok |-> FALSE, db |-> db]
    ELSE [ok |-> TRUE,
          db |-> {IF d.id = doc.id
                    THEN [d EXCEPT ![path] = PreSave(doc, path = "code")[path]]
                    ELSE d : d \in db}]

(* ----------------------------- createOTP ------------------------------ *)

\* mutants of DeleteKey: the deleteMany left out; a deleteMany of the used
\* documents only; a deleteMany({ email })
DeleteKey_Skipped(db, email, purpose) == db

DeleteKey_UsedOnly(db, email, purpose) ==
  {d \in db : ~(d.email = email /\ d.purpose = purpose /\ d.isUsed)}

DeleteKey_ByEmail(db, email, purpose) == {d \in db : d.email # email}

\* deleteMany({ email, purpose })
DeleteKey(db, email, purpose) ==
  {d \in db : ~(d.email = email /\ d.purpose = purpose)}

\* generateOTP's code c made into a document and saved: validation of the
\* new document, the pre('save') hash, the insert
InsertNew(db, t, id, email, purpose, c) ==
  LET doc == NewOTP(id, email, Plain(c), purpose, t)
  IN  IF ValidateOTP(doc)
        THEN [db |-> db \cup {PreSave(doc, TRUE)}, ok |-> TRUE]
        ELSE [db |-> db, ok |-> FALSE]

\* createOTP's effect on the collection, for the code generateOTP drew
\* (deleted: the deletedCount of its deleteMany)
CreateResult(db, t, id, email, purpose, c) ==
  LET cleared == DeleteKey(db, email, purpose)
      r       == InsertNew(cleared, t, id, email, purpose, c)
  IN  [db |-> r.db, ok |-> r.ok, deleted |-> Cardinality(db \ cleared)]

createOTP(email, purpose) ==
  /\ nextId <= MaxIssued
  /\ \E c \in Codes :
       LET r == CreateResult(otps, now, nextId, email, purpose, c)
       IN  /\ otps' = r.db
           /\ last' = [op |-> "createOTP", email |-> email, purpose |-> purpose,
                       code |-> c, result |-> IF r.ok THEN "ok" ELSE "threw",
                       deleted |-> r.deleted]
  /\ nextId' = nextId + 1
  /\ UNCHANGED <<now, calls, compares, otpRecords, users, social>>

(* ----------------------------- verifyOTP ------------------------------ *)

\* mutant of VerifyCandidates: the expiresAt condition left out of the query
VerifyCandidates_NoExpiry(db, t, email, purpose) ==
  {d \in db : d.email = email /\ d.purpose = purpose /\ ~d.isUsed}

\* mutant of VerifyCandidates: the comparison of expiresAt turned round
VerifyCandidates_ExpiryReversed(db, t, email, purpose) ==
  {d \in db : d.email = email /\ d.purpose = purpose
                /\ ~d.isUsed /\ d.expiresAt < t}

\* findOne({ email, purpose, isUsed: false, expiresAt: { $gt: new Date() } })
VerifyCandidates(db, t, email, purpose) ==
  {d \in db : d.email = email /\ d.purpose = purpose
                /\ ~d.isUsed /\ d.expiresAt > t}

\* verifyOTP from the document findOne returned to its return or throw
VerifyFound(db, doc, code) ==
  IF doc.attempts >= MaxAttempts
    THEN [db |-> db, result |-> "too_many"]
    ELSE LET d1 == [doc EXCEPT !.attempts = @ + 1]
             s1 == Save(db, d1, "attempts")
         IN  IF ~s1.ok
               THEN [db |-> db, result |-> "threw"]
               ELSE IF BcryptCompare(Plain(code), d1.code)
                      THEN LET d2 == [d1 EXCEPT !.isUsed = TRUE]
                               s2 == Save(s1.db, d2, "isUsed")
                           IN  IF ~s2.ok
                                 THEN [db |-> s1.db, result |-> "threw"]
                                 ELSE [db |-> s2.db, result |-> "valid"]
                      ELSE [db |-> s1.db, result |-> "invalid_code"]

\* mutant of VerifyOutcomes: a call that finds no document counts an
\* attempt on the documents of the key
VerifyOutcomes_CountsMisses(db, t, email, code, purpose) ==
  IF VerifyCandidates(db, t, email, purpose) = {}
    THEN {[db |-> {IF d.email = email /\ d.purpose = purpose
                     THEN [d EXCEPT !.attempts = @ + 1] ELSE d : d \in db},
           result |-> "not_found"]}
    ELSE {VerifyFound(db, d, code) : d \in VerifyCandidates(db, t, email, purpose)}

\* the outcomes verifyOTP can have in this state (one per document findOne
\* may return)
VerifyOutcomes(db, t, email, code, purpose) ==
  IF VerifyCandidates(db, t, email, purpose) = {}
    THEN {[db |-> db, result |-> "not_found"]}
    ELSE {VerifyFound(db, d, code) : d \in VerifyCandidates(db, t, email, purpose)}

verifyOTP(email, code, purpose) ==
  /\ \E r \in VerifyOutcomes(otps, now, email, code, purpose) :
       /\ otps' = r.db
       /\ last' = [op |-> "verifyOTP", email |-> email, purpose |-> purpose,
                   code |-> code, result |-> r.result, deleted |-> 0]
  /\ UNCHANGED <<now, nextId, calls, compares, otpRecords, users, social>>

(* ----------------------------- resendOTP ------------------------------ *)

\* mutant of RecentOTPs: the window not subtracted from Date.now()
RecentOTPs_NoWindow(db, t, email, purpose) ==
  {d \in db : d.email = email /\ d.purpose = purpose /\ d.createdAt >= t}

\* findOne({ email, purpose, createdAt: { $gte: new Date(Date.now() - 60 * 1000) } })
RecentOTPs(db, t, email, purpose) ==
  {d \in db : d.email = email /\ d.purpose = purpose
                /\ d.createdAt >= t - ResendWindowSeconds}

\* resendOTP's effect on the collection, for the code generateOTP would draw
ResendResult(db, t, id, email, purpose, c) ==
  IF RecentOTPs(db, t, email, purpose) # {}
    THEN [db |-> db, result |-> "rate_limited", deleted |-> 0]
    ELSE LET r == CreateResult(db, t, id, email, purpose, c)
         IN  [db |-> r.db, result |-> IF r.ok THEN "ok" ELSE "threw",
              deleted |-> r.deleted]

resendOTP(email, purpose) ==
  /\ \E c \in Codes :
       LET r == ResendResult(otps, now, nextId, email, purpose, c)
       IN  /\ r.result # "rate_limited" => nextId <= MaxIssued
           /\ otps' = r.db
           /\ nextId' = IF r.result = "rate_limited" THEN nextId ELSE nextId + 1
           /\ last' = [op |-> "resendOTP", email |-> email, purpose |-> purpose,
                       code |-> IF r.result = "rate_limited" THEN 0 ELSE c,
                       result |-> r.result, deleted |-> r.deleted]
  /\ UNCHANGED <<now, calls, compares, otpRecords, users, social>>

(* ----------------------------- getOTPInfo ----------------------------- *)

\* findOne({ email, purpose, isUsed: false }); the call writes nothing and
\* returns null or the record's email, purpose, expiresAt, attempts, createdAt
getOTPInfo(email, purpose) ==
  /\ last' = [op |-> "getOTPInfo", email |-> email, purpose |-> purpose, code |-> 0,
              result |-> IF {d \in otps : d.email = email /\ d.purpose = purpose
                                            /\ ~d.isUsed} = {}
                           THEN "null" ELSE "info",
              deleted |-> 0]
  /\ UNCHANGED <<otps, now, nextId, calls, compares, otpRecords, rejected, users, social>>

(* ------------------------------ expiry -------------------------------- *)

\* mutant of ExpiredOTPs: the filter on createdAt instead of expiresAt
ExpiredOTPs_ByCreatedAt(db, t) == {d \in db : d.createdAt < t}

\* the documents matching { expiresAt: { $lt: new Date() } }
ExpiredOTPs(db, t) == {d \in db : d.expiresAt < t}

\* deleteMany({ expiresAt: { $lt: new Date() } }), returning deletedCount
cleanupExpiredOTPs ==
  /\ otps' = otps \ ExpiredOTPs(otps, now)
  /\ last' = [op |-> "cleanupExpiredOTPs", email |-> "", purpose |-> "",
              code |-> 0, result |-> "ok",
              deleted |-> Cardinality(ExpiredOTPs(otps, now))]
  /\ UNCHANGED <<now, nextId, calls, compares, otpRecords, rejected, users, social>>

\* the TTL index { expiresAt: 1 }, expireAfterSeconds: 0: the server's
\* monitor removes the documents whose expiresAt has been reached
ttlIndexExpire ==
  /\ otps' = {d \in otps : ~(d.expiresAt <= now)}
  /\ last' = [op |-> "ttlIndexExpire", email |-> "", purpose |-> "",
              code |-> 0, result |-> "ok", deleted |-> 0]
  /\ UNCHANGED <<now, nextId, calls, compares, otpRecords, rejected, users, social>>

NoCall == [op |-> "none", email |-> "", purpose |-> "", code |-> 0, result |-> "ok",
           deleted |-> 0]

\* the passage of time, to the next instant
Tick ==
  /\ \E i \in 1..(Len(Instants) - 1) : now = Instants[i] /\ now' = Instants[i + 1]
  /\ last' = NoCall
  /\ UNCHANGED <<otps, nextId, calls, compares, otpRecords, rejected, users, social>>

(* -------------------------- overlapping calls ------------------------- *)

(* Each await of createOTP and verifyOTP is a point where another request  *)
(* can run.  A caller's call advances one collection operation at a time.   *)

Callers == 1..NumCallers

IdleCall == [pc |-> "idle", op |-> "none", code |-> 0, doc |-> {}, result |-> "none"]

Returned(op, code, doc, result) ==
  [pc |-> "done", op |-> op, code |-> code, doc |-> doc, result |-> result]

\* the createOTP calls that have deleted and not yet inserted
CreatesInFlight == {i \in Callers : calls[i].pc = "insert"}

\* createOTP, first await: deleteMany({ email, purpose }); then generateOTP
\* and new this({...}) run up to the save
createDelete(i) ==
  /\ calls[i].pc \in {"idle", "done"}
  /\ nextId + Cardinality(CreatesInFlight) <= MaxIssued
  /\ otps' = DeleteKey(otps, RaceEmail, RacePurpose)
  /\ \E c \in Codes :
       calls' = [calls EXCEPT ![i] =
                   [pc |-> "insert", op |-> "createOTP", code |-> c,
                    doc |-> {}, result |-> "none"]]
  /\ UNCHANGED <<now, nextId, last, compares, otpRecords, rejected, users, social>>

\* createOTP, second await: otp.save(), and the return
createInsert(i) ==
  /\ calls[i].pc = "insert"
  /\ LET r == InsertNew(otps, now, nextId, RaceEmail, RacePurpose, calls[i].code)
     IN  /\ otps' = r.db
         /\ calls' = [calls EXCEPT ![i] =
                        Returned("createOTP", calls[i].code, {},
                                 IF r.ok THEN "ok" ELSE "threw")]
  /\ nextId' = nextId + 1
  /\ UNCHANGED <<now, last, compares, otpRecords, rejected, users, social>>

\* verifyOTP, first await: findOne; then the attempts check and
\* otp.attempts += 1 run up to the save
verifyFind(i, code) ==
  /\ calls[i].pc \in {"idle", "done"}
  /\ IF VerifyCandidates(otps, now, RaceEmail, RacePurpose) = {}
       THEN calls' = [calls EXCEPT ![i] = Returned("verifyOTP", code, {}, "not_found")]
       ELSE \E d \in VerifyCandidates(otps, now, RaceEmail, RacePurpose) :
              calls' = [calls EXCEPT ![i] =
                IF d.attempts >= MaxAttempts
                  THEN Returned("verifyOTP", code, {d}, "too_many")
                  ELSE [pc |-> "save_attempts", op |-> "verifyOTP", code |-> code,
                        doc |-> {[d EXCEPT !.attempts = @ + 1]}, result |-> "none"]]
  /\ UNCHANGED <<otps, now, nextId, last, compares, otpRecords, rejected, users, social>>

\* verifyOTP, the awaits after findOne: otp.save() of attempts, then
\* bcrypt.compare, then otp.save() of isUsed
verifyStep(i) ==
  /\ calls[i].pc \in {"save_attempts", "compare", "save_used"}
  /\ LET c == calls[i]
         d == CHOOSE x \in c.doc : TRUE
     IN  CASE c.pc = "save_attempts" ->
                LET s == Save(otps, d, "attempts")
                IN  /\ otps' = s.db
                    /\ calls' = [calls EXCEPT ![i] =
                                   IF s.ok THEN [c EXCEPT !.pc = "compare"]
                                           ELSE Returned("verifyOTP", c.code, c.doc, "threw")]
                    /\ UNCHANGED compares
            [] c.pc = "compare" ->
                /\ compares' = [compares EXCEPT ![d.id] = @ + 1]
                /\ calls' = [calls EXCEPT ![i] =
                               IF BcryptCompare(Plain(c.code), d.code)
                                 THEN [c EXCEPT !.pc = "save_used",
                                                !.doc = {[d EXCEPT !.isUsed = TRUE]}]
                                 ELSE Returned("verifyOTP", c.code, c.doc, "invalid_code")]
                /\ UNCHANGED otps
            [] c.pc = "save_used" ->
                LET s == Save(otps, d, "isUsed")
                IN  /\ otps' = s.db
                    /\ calls' = [calls EXCEPT ![i] =
                                   Returned("verifyOTP", c.code, c.doc,
                                            IF s.ok THEN "valid" ELSE "threw")]
                    /\ UNCHANGED compares
  /\ UNCHANGED <<now, nextId, last, otpRecords, rejected, users, social>>

(* ------------------- the OTP model of the Next.js app ------------------ *)

(* src/lib/models/OTP.ts: the code is kept in the path otp as speakeasy     *)
(* returned it, the schema has no attempts path and no validator beyond     *)
(* required, and timestamps: true maintains createdAt and updatedAt.        *)

\* this.create({ email, otp, purpose, expiresAt }) with the schema defaults
\* and the timestamps
NewOTPRecord(id, email, otp, purpose, t) ==
  [ id        |-> id,
    email     |-> email,
    otp       |-> otp,
    purpose   |-> purpose,
    expiresAt |-> t + 10 * 60,
    isUsed    |-> FALSE,
    createdAt |-> t,
    updatedAt |-> t ]

\* mutant of CreateResult_ts: the record of the key is overwritten in place
\* (an upsert) instead of deleted and created
CreateResult_ts_Upsert(db, t, id, email, purpose, c) ==
  IF \E d \in db : d.email = email /\ d.purpose = purpose
    THEN [db |-> {IF d.email = email /\ d.purpose = purpose
                    THEN [d EXCEPT !.otp = Plain(c), !.expiresAt = t + 10 * 60,
                                   !.isUsed = FALSE, !.updatedAt = t]
                    ELSE d : d \in db},
          deleted |-> 0]
    ELSE [db |-> db \cup {NewOTPRecord(id, email, Plain(c), purpose, t)},
          deleted |-> 0]

\* createOTP's effect on the collection, for the code speakeasy.totp drew:
\* deleteMany({ email, purpose }), then create
CreateResult_ts(db, t, id, email, purpose, c) ==
  LET cleared == DeleteKey(db, email, purpose)
  IN  [db |-> cleared \cup {NewOTPRecord(id, email, Plain(c), purpose, t)},
       deleted |-> Cardinality(db \ cleared)]

createOTP_ts(email, purpose) ==
  /\ nextId <= MaxIssued
  /\ \E c \in Codes :
       LET r == CreateResult_ts(otpRecords, now, nextId, email, purpose, c)
       IN  /\ otpRecords' = r.db
           /\ last' = [op |-> "createOTP", email |-> email, purpose |-> purpose,
                       code |-> c, result |-> "ok", deleted |-> r.deleted]
  /\ nextId' = nextId + 1
  /\ UNCHANGED <<otps, now, calls, compares, rejected, users, social>>

\* verifyOTP from the record findOne returned to its return
VerifyFound_ts(db, rec, t, code) ==
  IF rec.otp # Plain(code)
    THEN [db |-> db, result |-> "invalid_code"]
    ELSE [db |-> {IF d.id = rec.id
                    THEN [d EXCEPT !.isUsed = TRUE, !.updatedAt = t]
                    ELSE d : d \in db},
          result |-> "valid"]

\* the outcomes verifyOTP can have in this state (one per record findOne
\* may return; the query is the one of VerifyCandidates)
VerifyOutcomes_ts(db, t, email, code, purpose) ==
  IF VerifyCandidates(db, t, email, purpose) = {}
    THEN {[db |-> db, result |-> "not_found"]}
    ELSE {VerifyFound_ts(db, d, t, code) : d \in VerifyCandidates(db, t, email, purpose)}

verifyOTP_ts(email, code, purpose) ==
  /\ \E r \in VerifyOutcomes_ts(otpRecords, now, email, code, purpose) :
       /\ otpRecords' = r.db
       /\ last' = [op |-> "verifyOTP", email |-> email, purpose |-> purpose,
                   code |-> code, result |-> r.result, deleted |-> 0]
  /\ UNCHANGED <<otps, now, nextId, calls, compares, rejected, users, social>>

\* resendOTP's effect on the collection: deleteMany({ email, purpose }),
\* then create, whatever the age of the records of the key
ResendResult_ts(db, t, id, email, purpose, c) ==
  LET r == CreateResult_ts(db, t, id, email, purpose, c)
  IN  [db |-> r.db, result |-> "ok", deleted |-> r.deleted]

resendOTP_ts(email, purpose) ==
  /\ nextId <= MaxIssued
  /\ \E c \in Codes :
       LET r == ResendResult_ts(otpRecords, now, nextId, email, purpose, c)
       IN  /\ otpRecords' = r.db
           /\ last' = [op |-> "resendOTP", email |-> email, purpose |-> purpose,
                       code |-> c, result |-> r.result, deleted |-> r.deleted]
  /\ nextId' = nextId + 1
  /\ UNCHANGED <<otps, now, calls, compares, rejected, users, social>>

\* the TTL index { expiresAt: 1 }, expireAfterSeconds: 0 of this collection
ttlIndexExpire_ts ==
  /\ otpRecords' = {d \in otpRecords : ~(d.expiresAt <= now)}
  /\ last' = [op |-> "ttlIndexExpire", email |-> "", purpose |-> "",
              code |-> 0, result |-> "ok", deleted |-> 0]
  /\ UNCHANGED <<otps, now, nextId, calls, compares, rejected, users, social>>

\* the passage of time, to the next instant
Tick_ts ==
  /\ \E i \in 1..(Len(Instants_ts) - 1) :
       now = Instants_ts[i] /\ now' = Instants_ts[i + 1]
  /\ last' = NoCall
  /\ UNCHANGED <<otps, nextId, calls, compares, otpRecords, rejected, users, social>>

\* otpRecord.save() of verifyOTP and the return: the update, by _id, of the
\* modified path isUsed, whatever the stored record holds by now.  When the
\* record is stored no longer the update matches nothing, which save() of
\* Mongoose reports by throwing or not at all, depending on its version.
SaveUsed_ts(db, d) ==
  IF \E x \in db : x.id = d.id
    THEN {[db |-> {IF x.id = d.id THEN [x EXCEPT !.isUsed = TRUE, !.updatedAt = d.updatedAt]
                                 ELSE x : x \in db},
           result |-> "valid"]}
    ELSE {[db |-> db, result |-> "threw"], [db |-> db, result |-> "valid"]}

\* verifyOTP of the Next.js model, first await: findOne; then the comparison
\* and otpRecord.isUsed = true run up to the save
verifyFind_ts(i, code) ==
  /\ calls[i].pc \in {"idle", "done"}
  /\ IF VerifyCandidates(otpRecords, now, RaceEmail, RacePurpose) = {}
       THEN calls' = [calls EXCEPT ![i] = Returned("verifyOTP_ts", code, {}, "not_found")]
       ELSE \E d \in VerifyCandidates(otpRecords, now, RaceEmail, RacePurpose) :
              calls' = [calls EXCEPT ![i] =
                IF d.otp # Plain(code)
                  THEN Returned("verifyOTP_ts", code, {d}, "invalid_code")
                  ELSE [pc |-> "save_ts", op |-> "verifyOTP_ts", code |-> code,
                        doc |-> {[d EXCEPT !.isUsed = TRUE, !.updatedAt = now]},
                        result |-> "none"]]
  /\ UNCHANGED <<otps, now, nextId, last, compares, otpRecords, rejected, users, social>>

\* verifyOTP of the Next.js model, second await: otpRecord.save(), and the
\* return
verifySave_ts(i) ==
  /\ calls[i].pc = "save_ts"
  /\ \E s \in SaveUsed_ts(otpRecords, CHOOSE x \in calls[i].doc : TRUE) :
       /\ otpRecords' = s.db
       /\ calls' = [calls EXCEPT ![i] =
                      Returned("verifyOTP_ts", calls[i].code, calls[i].doc, s.result)]
  /\ UNCHANGED <<otps, now, nextId, last, compares, rejected, users, social>>

(* ---------------------------- follows, likes ---------------------------- *)
(* src/models/Follow.js with followUser and unfollowUser of                 *)
(* src/controllers/settingsController.js, and the likes of src/models/Post.js *)
(* with likePost and unlikePost of src/unnamed/part_013.  The requests are   *)
(* served one after another.                                                 *)

\* Follow.create({ follower, following }): the pre('save') hooks run on the
\* new document (isNew), incrementing followingCount of the follower and
\* followersCount of the followed user, then the document is inserted
FollowCreate(fs, rc, gc, followerId, id) ==
  [follows |-> fs \cup {[follower |-> followerId, following |-> id]},
   followingCount |-> [gc EXCEPT ![followerId] = @ + 1],
   followersCount |-> [rc EXCEPT ![id] = @ + 1]]

\* Follow.findByIdAndDelete(existingFollow._id): a query, which deletes the
\* record in the database without loading a document; the pre('remove') hook
\* (Follow.js:73-86) is document middleware, run by document.remove() only,
\* which nothing calls
FollowFindByIdAndDelete(fs, rc, gc, f) ==
  [follows |-> fs \ {f}, followingCount |-> gc, followersCount |-> rc]

\* the Follow record of a pair, as Follow.findOne returns it (a set: empty
\* for null)
FollowFindOne(fs, followerId, id) ==
  {f \in fs : f.follower = followerId /\ f.following = id}

followUser(followerId, id) ==
  /\ followingCount[followerId] < MaxCount
  /\ IF id \notin UserIds
       THEN /\ last' = [op |-> "followUser", follower |-> followerId, id |-> id, result |-> "404"]
            /\ UNCHANGED <<follows, followersCount, followingCount>>
     ELSE IF followerId = id \/ FollowFindOne(follows, followerId, id) # {}
       THEN /\ last' = [op |-> "followUser", follower |-> followerId, id |-> id, result |-> "400"]
            /\ UNCHANGED <<follows, followersCount, followingCount>>
     ELSE LET r == FollowCreate(follows, followersCount, followingCount, followerId, id)
          IN  /\ follows' = r.follows
              /\ followersCount' = r.followersCount
              /\ followingCount' = r.followingCount
              /\ last' = [op |-> "followUser", follower |-> followerId, id |-> id, result |-> "200"]
  /\ UNCHANGED <<otps, now, nextId, calls, compares, otpRecords, users, rejected,
                 likes, likesCount>>

unfollowUser(followerId, id) ==
  /\ IF id \notin UserIds
       THEN /\ last' = [op |-> "unfollowUser", follower |-> followerId, id |-> id, result |-> "404"]
            /\ UNCHANGED <<follows, followersCount, followingCount>>
     ELSE IF FollowFindOne(follows, followerId, id) = {}
       THEN /\ last' = [op |-> "unfollowUser", follower |-> followerId, id |-> id, result |-> "400"]
            /\ UNCHANGED <<follows, followersCount, followingCount>>
     ELSE LET r == FollowFindByIdAndDelete(follows, followersCount, followingCount,
                     CHOOSE f \in FollowFindOne(follows, followerId, id) : TRUE)
          IN  /\ follows' = r.follows
              /\ followersCount' = r.followersCount
              /\ followingCount' = r.followingCount
              /\ last' = [op |-> "unfollowUser", follower |-> followerId, id |-> id, result |-> "200"]
  /\ UNCHANGED <<otps, now, nextId, calls, compares, otpRecords, users, rejected,
                 likes, likesCount>>

\* an element of likes is a subdocument { user, createdAt } with an _id of
\* its own; "undefined" stands for a field that is not set and "auto" for
\* an _id the array generated

\* likes.some(like => like.user.toString() === userId.toString()): the
\* callback runs on the elements in order, stops at the first match, and
\* throws a TypeError at an element whose user is undefined
RECURSIVE SomeLikedBy(_, _, _)
SomeLikedBy(ls, userId, i) ==
  IF i > Len(ls) THEN "false"
  ELSE IF ls[i].user = "undefined" THEN "TypeError"
  ELSE IF ls[i].user = userId THEN "true"
  ELSE SomeLikedBy(ls, userId, i + 1)

\* pre('save') of the post: likesCount = likes.length
PostPreSave(ls) == [likes |-> ls, likesCount |-> Len(ls)]

\* postSchema.methods.addLike
addLike(userId) ==
  /\ Len(likes) < MaxLikes
  /\ LET some == SomeLikedBy(likes, userId, 1)
         r == PostPreSave(IF some = "false"
                            THEN Append(likes, [user |-> userId, id |-> "auto"])
                            ELSE likes)
     IN  IF some = "TypeError"
           THEN /\ UNCHANGED <<likes, likesCount>>
                /\ last' = [op |-> "addLike", user |-> userId, result |-> "TypeError"]
           ELSE /\ likes' = r.likes
                /\ likesCount' = r.likesCount
                /\ last' = [op |-> "addLike", user |-> userId, result |-> "saved"]
  /\ UNCHANGED <<otps, now, nextId, calls, compares, otpRecords, users, rejected,
                 follows, followersCount, followingCount>>

\* postSchema.methods.removeLike: the filter's callback runs on every
\* element and throws a TypeError at one whose user is undefined
removeLike(userId) ==
  /\ IF \E i \in 1..Len(likes) : likes[i].user = "undefined"
       THEN /\ UNCHANGED <<likes, likesCount>>
            /\ last' = [op |-> "removeLike", user |-> userId, result |-> "TypeError"]
       ELSE LET Keep(like) == like.user # userId
                r == PostPreSave(SelectSeq(likes, Keep))
            IN  /\ likes' = r.likes
                /\ likesCount' = r.likesCount
                /\ last' = [op |-> "removeLike", user |-> userId, result |-> "saved"]
  /\ UNCHANGED <<otps, now, nextId, calls, compares, otpRecords, users, rejected,
                 follows, followersCount, followingCount>>

\* post.likes.includes(userId) of the controllers: the array compares each
\* element with the id string by ==, which converts the subdocument with
\* its toString(), the printed form of the whole object; that is equal to
\* no id
Includes(ls, userId) == \E i \in 1..Len(ls) : FALSE

\* post.likes.push(userId): the array casts a value that is not an object
\* to a subdocument { _id: value }, whose user is not set
PushId(ls, userId) == Append(ls, [user |-> "undefined", id |-> userId])

\* likePost of the controller, on the one post (PostIds) or on an id that
\* has no post
likePost(id, userId) ==
  /\ Len(likes) < MaxLikes
  /\ IF id \notin PostIds
       THEN /\ UNCHANGED <<likes, likesCount>>
            /\ last' = [op |-> "likePost", user |-> userId, result |-> "404"]
     ELSE IF Includes(likes, userId)
       THEN /\ UNCHANGED <<likes, likesCount>>
            /\ last' = [op |-> "likePost", user |-> userId, result |-> "400"]
     ELSE LET r == PostPreSave(PushId(likes, userId))
          IN  /\ likes' = r.likes
              /\ likesCount' = r.likesCount
              /\ last' = [op |-> "likePost", user |-> userId, result |-> "200"]
  /\ UNCHANGED <<otps, now, nextId, calls, compares, otpRecords, users, rejected,
                 follows, followersCount, followingCount>>

\* unlikePost of the controller
unlikePost(id, userId) ==
  /\ IF id \notin PostIds
       THEN /\ UNCHANGED <<likes, likesCount>>
            /\ last' = [op |-> "unlikePost", user |-> userId, result |-> "404"]
     ELSE IF ~Includes(likes, userId)
       THEN /\ UNCHANGED <<likes, likesCount>>
            /\ last' = [op |-> "unlikePost", user |-> userId, result |-> "400"]
     ELSE LET Keep(like) == like.id # userId
              r == PostPreSave(SelectSeq(likes, Keep))
          IN  /\ likes' = r.likes
              /\ likesCount' = r.likesCount
              /\ last' = [op |-> "unlikePost", user |-> userId, result |-> "200"]
  /\ UNCHANGED <<otps, now, nextId, calls, compares, otpRecords, users, rejected,
                 follows, followersCount, followingCount>>

(* ------------------------ the request handlers ------------------------ *)

(* The send and resend handlers of the Express controller                   *)
(* (src/unnamed/part_011) and the send handler of the Next.js application   *)
(* (src/pages/api/auth/otp/send.ts).  The request bodies are valid.  Whether *)
(* a user with the address exists (User.findOne) is read from users; both   *)
(* applications are given the same users.  Whether sendOTPEmail returns     *)
(* true is an input; sendOTPEmail catches every error of the transport and  *)
(* returns false.  A call records the response's status, or    *)
(* "next(error)" when the error goes to the error middleware, and what       *)
(* became of the dispatch.                                                   *)

\* the handler's steps after the user checks, given what the OTP model's
\* call did (ok: it returned) and what sendOTPEmail returned
Responded(op, email, purpose, c, ok, emailSent) ==
  [op |-> op, email |-> email, purpose |-> purpose, code |-> c, deleted |-> 0,
   dispatch |-> IF ~ok THEN "none" ELSE IF emailSent THEN "sent" ELSE "failed",
   result |-> IF ~ok THEN "next(error)" ELSE IF emailSent THEN "200" ELSE "500"]

\* mutant of UserCheck: the check of the signup purpose left out
UserCheck_NoSignupCheck(purpose, userExists) ==
  IF purpose \in {"login", "password_reset"} /\ ~userExists THEN "404" ELSE ""

\* the response of the user checks of the send handlers, "" when they pass
UserCheck(purpose, userExists) ==
  IF purpose \in {"login", "password_reset"} /\ ~userExists THEN "404"
  ELSE IF purpose = "signup" /\ userExists THEN "400"
  ELSE ""

\* sendOTP of the Express controller
sendOTP(email, purpose) ==
  /\ nextId <= MaxIssued
  /\ \E userExists \in {email \in users}, emailSent \in BOOLEAN, c \in Codes :
       IF UserCheck(purpose, userExists) # ""
         THEN /\ last' = [Responded("sendOTP", email, purpose, 0, FALSE, FALSE)
                            EXCEPT !.result = UserCheck(purpose, userExists)]
              /\ UNCHANGED <<otps, nextId, users, social>>
         ELSE LET r == CreateResult(otps, now, nextId, email, purpose, c)
              IN  /\ otps' = r.db
                  /\ nextId' = nextId + 1
                  /\ last' = Responded("sendOTP", email, purpose, c, r.ok, emailSent)
  /\ UNCHANGED <<now, calls, compares, otpRecords, rejected, users, social>>

\* resendOTP of the Express controller: no user check; the model's
\* resendOTP throws when it is rate-limited
resendOTP_controller(email, purpose) ==
  /\ nextId <= MaxIssued
  /\ \E emailSent \in BOOLEAN, c \in Codes :
       LET r == ResendResult(otps, now, nextId, email, purpose, c)
       IN  /\ otps' = r.db
           /\ nextId' = IF r.result = "rate_limited" THEN nextId ELSE nextId + 1
           /\ last' = Responded("resendOTP_controller", email, purpose,
                                 IF r.result = "ok" THEN c ELSE 0,
                                 r.result = "ok", emailSent)
  /\ UNCHANGED <<now, calls, compares, otpRecords, rejected, users, social>>

\* the handler of pages/api/auth/otp/send.ts; its catch answers 500
handler_send(email, purpose) ==
  /\ nextId <= MaxIssued
  /\ \E userExists \in {email \in users}, emailSent \in BOOLEAN, c \in Codes :
       IF UserCheck(purpose, userExists) # ""
         THEN /\ last' = [Responded("handler_send", email, purpose, 0, FALSE, FALSE)
                            EXCEPT !.result = UserCheck(purpose, userExists)]
              /\ UNCHANGED <<otpRecords, nextId, users, social>>
         ELSE LET r == CreateResult_ts(otpRecords, now, nextId, email, purpose, c)
              IN  /\ otpRecords' = r.db
                  /\ nextId' = nextId + 1
                  /\ last' = Responded("handler_send", email, purpose, c, TRUE, emailSent)
  /\ UNCHANGED <<otps, now, calls, compares, rejected, users, social>>

\* signup of the Express controller, as far as the User collection goes:
\* 400 when the address is registered, else User.create and 201
signup(email) ==
  /\ users' = users \cup {email}
  /\ last' = [NoCall EXCEPT !.op = "signup", !.email = email,
                            !.result = IF email \in users THEN "400" ELSE "201"]
  /\ UNCHANGED <<otps, now, nextId, calls, compares, otpRecords, rejected, social>>

\* the error middleware that next(error) hands the error to: it answers the
\* request with an error status
errorHandler(error) == "500"

\* verifyOTP of the Express controller after OTP.verifyOTP has returned or
\* thrown: the status answered, whether a token was generated, and the number
\* of responses sent.  The last else-if is password_reset: no branch answers
\* a valid verification of another purpose.
VerifyResponse(purpose, verification, userExists) ==
  IF verification = "threw"
    THEN [result |-> errorHandler(verification), token |-> FALSE, responses |-> 1]
  ELSE IF verification # "valid"
    THEN [result |-> "400", token |-> FALSE, responses |-> 1]
  ELSE IF purpose = "signup"
    THEN [result |-> "200", token |-> FALSE, responses |-> 1]
  ELSE IF purpose = "login"
    THEN IF ~userExists
           THEN [result |-> "404", token |-> FALSE, responses |-> 1]
           ELSE [result |-> "200", token |-> TRUE, responses |-> 1]
  ELSE IF purpose = "password_reset"
    THEN [result |-> "200", token |-> FALSE, responses |-> 1]
  ELSE [result |-> "none", token |-> FALSE, responses |-> 0]

\* mutant of VerifyResponse_ts: the login branch without its user check
VerifyResponse_ts_NoUserCheck(purpose, verification, userExists) ==
  IF verification # "valid"
    THEN [result |-> "400", token |-> FALSE, responses |-> 1]
  ELSE [result |-> "200", token |-> purpose = "login", responses |-> 1]

\* mutant of VerifyResponse_ts: the final else branch left out
VerifyResponse_ts_NoElse(purpose, verification, userExists) ==
  IF verification # "valid"
    THEN [result |-> "400", token |-> FALSE, responses |-> 1]
  ELSE IF purpose = "login" /\ ~userExists
    THEN [result |-> "404", token |-> FALSE, responses |-> 1]
  ELSE IF purpose \in {"signup", "login", "password_reset"}
    THEN [result |-> "200", token |-> purpose = "login", responses |-> 1]
  ELSE [result |-> "none", token |-> FALSE, responses |-> 0]

\* the same of the Next.js verify handler (src/unnamed/part_001): its catch
\* answers 500, and a final else answers the other purposes
VerifyResponse_ts(purpose, verification, userExists) ==
  IF verification = "threw"
    THEN [result |-> "500", token |-> FALSE, responses |-> 1]
  ELSE IF verification # "valid"
    THEN [result |-> "400", token |-> FALSE, responses |-> 1]
  ELSE IF purpose = "signup"
    THEN [result |-> "200", token |-> FALSE, responses |-> 1]
  ELSE IF purpose = "login"
    THEN IF ~userExists
           THEN [result |-> "404", token |-> FALSE, responses |-> 1]
           ELSE [result |-> "200", token |-> TRUE, responses |-> 1]
  ELSE IF purpose = "password_reset"
    THEN [result |-> "200", token |-> FALSE, responses |-> 1]
  ELSE [result |-> "200", token |-> FALSE, responses |-> 1]

\* what a verify handler records of its request
Verified(op, email, code, purpose, verification, userExists, response) ==
  [op |-> op, email |-> email, purpose |-> purpose, code |-> code, deleted |-> 0,
   verification |-> verification, userExists |-> userExists,
   result |-> response.result, token |-> response.token,
   responses |-> response.responses]

\* verifyOTP of the Express controller
verifyOTP_controller(email, code, purpose) ==
  /\ \E r \in VerifyOutcomes(otps, now, email, code, purpose) :
       /\ otps' = r.db
       /\ last' = Verified("verifyOTP_controller", email, code, purpose, r.result,
                           email \in users,
                           VerifyResponse(purpose, r.result, email \in users))
  /\ UNCHANGED <<now, nextId, calls, compares, otpRecords, users, rejected, social>>

\* the handler of the Next.js verify route
handler_verify(email, code, purpose) ==
  /\ \E r \in VerifyOutcomes_ts(otpRecords, now, email, code, purpose) :
       /\ otpRecords' = r.db
       /\ last' = Verified("handler_verify", email, code, purpose, r.result,
                           email \in users,
                           VerifyResponse_ts(purpose, r.result, email \in users))
  /\ UNCHANGED <<otps, now, nextId, calls, compares, users, rejected, social>>

Tick_scope ==
  /\ \E i \in 1..(Len(ScopeInstants) - 1) :
       now = ScopeInstants[i] /\ now' = ScopeInstants[i + 1]
  /\ last' = NoCall
  /\ UNCHANGED <<otps, nextId, calls, compares, otpRecords, rejected, users, social>>

(* --------------------------- specification ---------------------------- *)

Init ==
  /\ otps = {}
  /\ now = 0
  /\ nextId = 1
  /\ last = NoCall
  /\ calls = [i \in Callers |-> IdleCall]
  /\ compares = [id \in 1..MaxIssued |-> 0]
  /\ otpRecords = {}
  /\ users = {}
  /\ rejected = {}
  /\ follows = {}
  /\ followersCount = [u \in UserIds |-> 0]
  /\ followingCount = [u \in UserIds |-> 0]
  /\ likes = <<>>
  /\ likesCount = 0

Next ==
  \/ \E e \in Emails, p \in Purposes : createOTP(e, p) /\ UNCHANGED rejected
  \/ \E e \in Emails, p \in Purposes, c \in Codes :
       verifyOTP(e, c, p) /\ UNCHANGED rejected
  \/ \E e \in Emails, p \in Purposes : resendOTP(e, p) /\ UNCHANGED rejected
  \/ \E e \in Emails, p \in Purposes : getOTPInfo(e, p)
  \/ cleanupExpiredOTPs
  \/ ttlIndexExpire
  \/ Tick

Spec == Init /\ [][Next]_vars

\* the keys rejected so far, after a call on (email, purpose) has returned
\* result
Rejected(rej, email, purpose, op, result) ==
  LET others == {x \in rej : ~(x[1] = email /\ x[2] = purpose)}
  IN  IF op = "verifyOTP" /\ result \in {"not_found", "too_many"}
        THEN others \cup {<<email, purpose, rej # others>>}
        ELSE IF op \in {"createOTP", "resendOTP"} /\ result = "ok"
               THEN others
               ELSE rej

\* the calls served one after another, with the history of the rejections
NextRetry ==
  \/ \E e \in Emails, p \in Purposes :
       createOTP(e, p) /\ rejected' = Rejected(rejected, e, p, last'.op, last'.result)
  \/ \E e \in Emails, p \in Purposes, c \in Codes :
       verifyOTP(e, c, p) /\ rejected' = Rejected(rejected, e, p, last'.op, last'.result)
  \/ \E e \in Emails, p \in Purposes :
       resendOTP(e, p) /\ rejected' = Rejected(rejected, e, p, last'.op, last'.result)
  \/ \E e \in Emails, p \in Purposes : getOTPInfo(e, p)
  \/ cleanupExpiredOTPs
  \/ ttlIndexExpire
  \/ Tick

SpecRetry == Init /\ [][NextRetry]_vars

\* the calls of the Next.js application, served one after another
Next_ts ==
  \/ \E e \in Emails, p \in Purposes : createOTP_ts(e, p)
  \/ \E e \in Emails, p \in Purposes, c \in Codes : verifyOTP_ts(e, c, p)
  \/ \E e \in Emails, p \in Purposes : resendOTP_ts(e, p)
  \/ ttlIndexExpire_ts
  \/ Tick_ts

Spec_ts == Init /\ [][Next_ts]_vars

\* calls on several addresses and purposes, of the Express application (as
\* long as the other collection is empty) or of the Next.js application
NextScope ==
  \/ /\ otpRecords = {}
     /\ \E k \in ScopeKeys :
          \/ createOTP(k[1], k[2]) /\ UNCHANGED rejected
          \/ \E c \in Codes : verifyOTP(k[1], c, k[2]) /\ UNCHANGED rejected
          \/ resendOTP(k[1], k[2]) /\ UNCHANGED rejected
  \/ /\ otps = {}
     /\ \E k \in ScopeKeys :
          \/ createOTP_ts(k[1], k[2])
          \/ \E c \in Codes : verifyOTP_ts(k[1], c, k[2])
          \/ resendOTP_ts(k[1], k[2])
  \/ Tick_scope

SpecScope == Init /\ [][NextScope]_vars

\* the requests to the send and resend handlers, served one after another
NextHandlers ==
  \/ otpRecords = {} /\ \E e \in Emails, p \in AllPurposes : sendOTP(e, p)
  \/ otpRecords = {} /\ \E e \in Emails, p \in AllPurposes : resendOTP_controller(e, p)
  \/ otps = {} /\ \E e \in Emails, p \in AllPurposes : handler_send(e, p)
  \/ \E e \in Emails : signup(e)
  \/ Tick_scope

SpecHandlers == Init /\ [][NextHandlers]_vars

\* the requests to the verify handlers, of the Express application (as
\* long as the other collection is empty) or of the Next.js application,
\* with the issues and signups that precede them
NextVerify ==
  \/ /\ otpRecords = {}
     /\ \E e \in Emails, p \in AllPurposes :
          \/ nextId <= MaxVerifyIssued /\ createOTP(e, p) /\ UNCHANGED rejected
          \/ \E c \in Codes : verifyOTP_controller(e, c, p)
  \/ /\ otps = {}
     /\ \E e \in Emails, p \in AllPurposes :
          \/ nextId <= MaxVerifyIssued /\ createOTP_ts(e, p)
          \/ \E c \in Codes : handler_verify(e, c, p)
  \/ \E e \in Emails : signup(e)
  \/ Tick_scope

SpecVerify == Init /\ [][NextVerify]_vars

\* requests that overlap on one key
NextOverlap ==
  \E i \in Callers :
    \/ createDelete(i)
    \/ createInsert(i)
    \/ \E c \in Codes : verifyFind(i, c)
    \/ verifyStep(i)

SpecOverlap == Init /\ [][NextOverlap]_vars

\* the follow and unfollow requests of the signed-in users
NextFollow ==
  \E followerId \in UserIds, id \in UserIds \cup {NoUserId} :
    \/ followUser(followerId, id)
    \/ unfollowUser(followerId, id)

SpecFollow == Init /\ [][NextFollow]_vars

\* the calls of the post's methods and the like requests of the signed-in
\* users
NextLikes ==
  \E userId \in UserIds :
    \/ addLike(userId)
    \/ removeLike(userId)
    \/ \E id \in PostIds \cup {NoPostId} : likePost(id, userId)
    \/ \E id \in PostIds \cup {NoPostId} : unlikePost(id, userId)

SpecLikes == Init /\ [][NextLikes]_vars

\* calls of the Next.js model that overlap on one key; createOTP here runs
\* between the steps of the verifyOTP calls
NextOverlap_ts ==
  \/ createOTP_ts(RaceEmail, RacePurpose)
  \/ \E i \in Callers :
       \/ \E c \in Codes : verifyFind_ts(i, c)
       \/ verifySave_ts(i)
  \/ Tick_ts

SpecOverlap_ts == Init /\ [][NextOverlap_ts]_vars

(* ------------------------------ claims -------------------------------- *)

\* the documents of (email, purpose)
OfKey(db, email, purpose) == {d \in db : d.email = email /\ d.purpose = purpose}

\* the eligibility predicate of the data model: unused, unexpired, attempts
\* below the cap
Eligible(d, t) == ~d.isUsed /\ t < d.expiresAt /\ d.attempts < 5

\* the records of the other keys
NotOfKey(db, email, purpose) == db \ OfKey(db, email, purpose)

\* the same for the verifyOTP of the Next.js model
RECURSIVE VerifyRepeat_ts(_, _, _, _, _, _)
VerifyRepeat_ts(db, t, email, code, purpose, n) ==
  IF n = 0
    THEN {[db |-> db, results |-> <<>>]}
    ELSE UNION { { [db |-> r.db, results |-> Append(h.results, r.result)] :
                     r \in VerifyOutcomes_ts(h.db, t, email, code, purpose) } :
                 h \in VerifyRepeat_ts(db, t, email, code, purpose, n - 1) }

\* n successive verifyOTP calls with the same arguments at one instant:
\* every collection they can leave, with the results returned
RECURSIVE VerifyRepeat(_, _, _, _, _, _)
VerifyRepeat(db, t, email, code, purpose, n) ==
  IF n = 0
    THEN {[db |-> db, results |-> <<>>]}
    ELSE UNION { { [db |-> r.db, results |-> Append(h.results, r.result)] :
                     r \in VerifyOutcomes(h.db, t, email, code, purpose) } :
                 h \in VerifyRepeat(db, t, email, code, purpose, n - 1) }

\* C1 (as claimed): verifyOTP returns valid=true exactly when a record of
\* (address, purpose) is unused, unexpired, below 5 attempts and holds the
\* hash of the submitted code; in every other case it returns valid=false.
C1_ValidIffEligibleMatch ==
  \A e \in Emails, p \in Purposes, c \in Codes :
    \A r \in VerifyOutcomes(otps, now, e, c, p) :
      IF \E d \in OfKey(otps, e, p) :
            Eligible(d, now) /\ BcryptCompare(Plain(c), d.code)
        THEN r.result = "valid"
        ELSE r.result \in {"not_found", "too_many", "invalid_code"}

\* C2 (as claimed): right after createOTP, verifyOTP with the code it
\* returned yields valid=true, and any verifyOTP after that one yields
\* "not found or expired", whatever the code.
C2_ValidExactlyOnce ==
  (last.op = "createOTP" /\ last.result = "ok") =>
    \A r1 \in VerifyOutcomes(otps, now, last.email, last.code, last.purpose) :
      /\ r1.result = "valid"
      /\ \A c \in Codes :
           \A r2 \in VerifyOutcomes(r1.db, now, last.email, c, last.purpose) :
             r2.result = "not_found"

\* C3 (as claimed): a verifyOTP call that passes the attempts check raises
\* the record's attempts by exactly 1; five wrong submissions against a
\* fresh record each return "invalid code" and leave attempts = 5, and the
\* sixth submission returns "too many attempts" even with the right code.
C3_AttemptCap ==
  \A d \in otps : \A w \in Codes :
    (Eligible(d, now) /\ d.attempts = 0 /\ ~BcryptCompare(Plain(w), d.code)) =>
      /\ \A r \in VerifyOutcomes(otps, now, d.email, w, d.purpose) :
           \A d1 \in ById(r.db, d.id) : d1.attempts = d.attempts + 1
      /\ \A h \in VerifyRepeat(otps, now, d.email, w, d.purpose, 5) :
           /\ h.results = <<"invalid_code", "invalid_code", "invalid_code",
                            "invalid_code", "invalid_code">>
           /\ \A d5 \in ById(h.db, d.id) : d5.attempts = 5
           /\ \A c \in Codes :
                \A r \in VerifyOutcomes(h.db, now, d.email, c, d.purpose) :
                  r.result = "too_many"

C5_ExpiredNotFound ==
  \A e \in Emails, p \in Purposes, c \in Codes :
    (OfKey(otps, e, p) # {} /\ \A d \in OfKey(otps, e, p) : now >= d.expiresAt) =>
      VerifyOutcomes(otps, now, e, c, p) = {[db |-> otps, result |-> "not_found"]}

\* a verifyOTP with the right code has just returned "not found" for a
\* record that is stored and has reached its expiresAt
C5_Witness ==
  /\ last.op = "verifyOTP" /\ last.result = "not_found"
  /\ \E d \in OfKey(otps, last.email, last.purpose) :
       now >= d.expiresAt /\ BcryptCompare(Plain(last.code), d.code)

\* C6: when createOTP(address, purpose) has just returned, exactly one
\* eligible record of (address, purpose) is stored.
C6_OneEligibleAfterCreate ==
  (last.op = "createOTP" /\ last.result = "ok") =>
    Cardinality({d \in OfKey(otps, last.email, last.purpose) : Eligible(d, now)}) = 1

\* createOTP has just returned for a key that held a record, which its
\* deleteMany removed
C6_Witness ==
  /\ last.op = "createOTP" /\ last.result = "ok" /\ last.deleted = 1
  /\ \E d \in OfKey(otps, last.email, last.purpose) : Eligible(d, now)

\* C7: in every state the sequential calls reach, each (address, purpose)
\* has at most one unused, unexpired record.
C7_AtMostOneActive ==
  \A e \in Emails, p \in Purposes :
    Cardinality({d \in OfKey(otps, e, p) : ~d.isUsed /\ d.expiresAt > now}) <= 1

\* a resendOTP has just replaced the record of its key while the other key
\* holds an unused, unexpired record of its own
C7_Witness ==
  /\ last.op = "resendOTP" /\ last.result = "ok" /\ last.deleted = 1
  /\ \A e \in Emails, p \in Purposes :
       Cardinality({d \in OfKey(otps, e, p) : ~d.isUsed /\ d.expiresAt > now}) = 1

\* C8 (as claimed): once no createOTP call is in flight any more, at most
\* one unused, unexpired record of the key is stored, however the deletes
\* and inserts of the calls were interleaved.
C8_OneActiveAfterRace ==
  CreatesInFlight = {} =>
    Cardinality({d \in OfKey(otps, RaceEmail, RacePurpose) :
                   ~d.isUsed /\ d.expiresAt > now}) <= 1

\* C9: resendOTP is rejected as rate-limited whenever a record of
\* (address, purpose) was created less than 60 seconds earlier, and the
\* rejected call leaves the collection as it was.
C9_ResendCooldown ==
  \A e \in Emails, p \in Purposes, c \in Codes :
    (\E d \in OfKey(otps, e, p) : now - d.createdAt < 60 /\ now >= d.createdAt) =>
      /\ ResendResult(otps, now, nextId, e, p, c).result = "rate_limited"
      /\ ResendResult(otps, now, nextId, e, p, c).db = otps

\* a resendOTP has just been rejected 30 seconds after the record was made
C9_Witness ==
  /\ last.op = "resendOTP" /\ last.result = "rate_limited"
  /\ \E d \in OfKey(otps, last.email, last.purpose) :
       now - d.createdAt > 0 /\ now - d.createdAt < 60

\* C10 (as claimed): resendOTP more than 60 seconds after the last issuance
\* succeeds; when it has replaced a record it leaves exactly one record of
\* the key, fresh (attempts 0, unused), and then only the code it returned
\* verifies.
C10_ResendReplaces ==
  /\ \A e \in Emails, p \in Purposes, c \in Codes :
       (\A d \in OfKey(otps, e, p) : now - d.createdAt > 60) =>
         ResendResult(otps, now, nextId, e, p, c).result = "ok"
  /\ (last.op = "resendOTP" /\ last.result = "ok" /\ last.deleted = 1) =>
       /\ Cardinality(OfKey(otps, last.email, last.purpose)) = 1
       /\ \A d \in OfKey(otps, last.email, last.purpose) :
            d.attempts = 0 /\ ~d.isUsed /\ d.createdAt = now
       /\ \A c \in Codes :
            \A r \in VerifyOutcomes(otps, now, last.email, c, last.purpose) :
              (r.result = "valid") <=> (c = last.code)

C12_UsedMonotonic ==
  /\ [][\A d \in otps : d.isUsed => \A e \in ById(otps', d.id) : e.isUsed]_vars
  /\ [][\A d \in otpRecords :
          d.isUsed => \A e \in ById(otpRecords', d.id) : e.isUsed]_vars

\* a verifyOTP has just run on a key whose record is used, and the record
\* is still stored and used
C12_Witness ==
  /\ last.op = "verifyOTP" /\ last.result = "not_found"
  /\ \E d \in OfKey(otpRecords, last.email, last.purpose) :
       d.isUsed /\ d.updatedAt < now

\* C13 (as claimed): verifyOTP with a wrong code against the eligible
\* record of a key returns "invalid code" and changes nothing but that
\* record's attempts; while fewer than 5 attempts have then been made, a
\* verifyOTP with the correct code that follows returns valid=true.
C13_WrongCodeKeepsActive ==
  \A d \in otps : \A w \in Codes :
    (Eligible(d, now) /\ ~BcryptCompare(Plain(w), d.code)) =>
      \A r \in VerifyOutcomes(otps, now, d.email, w, d.purpose) :
        /\ r.result = "invalid_code"
        /\ r.db = (otps \ {d}) \cup {[d EXCEPT !.attempts = @ + 1]}
        /\ d.attempts + 1 < 5 =>
             \A c \in Codes :
               BcryptCompare(Plain(c), d.code) =>
                 \A r2 \in VerifyOutcomes(r.db, now, d.email, c, d.purpose) :
                   r2.result = "valid"

\* C14: for a key for which verifyOTP has returned "too many attempts" or
\* "not found or expired", and for which no createOTP or resendOTP has
\* succeeded since, verifyOTP returns valid=false whatever the code.
C14_RejectedStaysRejected ==
  \A x \in rejected : \A c \in Codes :
    \A r \in VerifyOutcomes(otps, now, x[1], c, x[2]) :
      r.result \in {"not_found", "too_many", "invalid_code"}

\* verifyOTP, rejected before for this key, has just been rejected again
\* with the code of a record of the key that is still stored
C14_Witness ==
  /\ last.op = "verifyOTP" /\ last.result = "not_found"
  /\ <<last.email, last.purpose, TRUE>> \in rejected
  /\ \E d \in OfKey(otps, last.email, last.purpose) :
       BcryptCompare(Plain(last.code), d.code)

\* C15: createOTP, verifyOTP and resendOTP on (address, purpose), in either
\* model, leave the records of every other key as they are and return what
\* they would return were the records of the key the only ones stored;
\* verifyOTP returns valid=true only when a record of that very key holds
\* the submitted code.
C15_KeyScoped ==
  \A k \in ScopeKeys : \A c \in Codes :
    LET e == k[1]
        p == k[2]
    IN  /\ NotOfKey(CreateResult(otps, now, nextId, e, p, c).db, e, p)
             = NotOfKey(otps, e, p)
        /\ NotOfKey(ResendResult(otps, now, nextId, e, p, c).db, e, p)
             = NotOfKey(otps, e, p)
        /\ ResendResult(otps, now, nextId, e, p, c).result
             = ResendResult(OfKey(otps, e, p), now, nextId, e, p, c).result
        /\ \A r \in VerifyOutcomes(otps, now, e, c, p) :
             /\ NotOfKey(r.db, e, p) = NotOfKey(otps, e, p)
             /\ r.result = "valid" =>
                  \E d \in OfKey(otps, e, p) : BcryptCompare(Plain(c), d.code)
        /\ {r.result : r \in VerifyOutcomes(otps, now, e, c, p)}
             = {r.result : r \in VerifyOutcomes(OfKey(otps, e, p), now, e, c, p)}
        /\ NotOfKey(CreateResult_ts(otpRecords, now, nextId, e, p, c).db, e, p)
             = NotOfKey(otpRecords, e, p)
        /\ NotOfKey(ResendResult_ts(otpRecords, now, nextId, e, p, c).db, e, p)
             = NotOfKey(otpRecords, e, p)
        /\ \A r \in VerifyOutcomes_ts(otpRecords, now, e, c, p) :
             /\ NotOfKey(r.db, e, p) = NotOfKey(otpRecords, e, p)
             /\ r.result = "valid" =>
                  \E d \in OfKey(otpRecords, e, p) : d.otp = Plain(c)
        /\ {r.result : r \in VerifyOutcomes_ts(otpRecords, now, e, c, p)}
             = {r.result : r \in VerifyOutcomes_ts(OfKey(otpRecords, e, p), now, e, c, p)}

\* verifyOTP has just refused, for one purpose of an address, the code that
\* an eligible record of the other purpose of the address holds, while a
\* record of another address is stored as well
C15_Witness ==
  /\ last.op = "verifyOTP" /\ last.result \in {"not_found", "invalid_code"}
  /\ \E d \in otpRecords :
       /\ d.email = last.email /\ d.purpose # last.purpose
       /\ d.otp = Plain(last.code) /\ ~d.isUsed /\ d.expiresAt > now
  /\ \E d \in otpRecords : d.email # last.email

\* C16 (as claimed): when createOTP has returned, the key has exactly one
\* record, the new one, with attempts = 0, isUsed = false, expiresAt = now +
\* 10 minutes and the hash of the returned code, and of all codes only the
\* returned one verifies.
C16_CreateReplaces ==
  (last.op = "createOTP" /\ last.result = "ok") =>
    /\ OfKey(otps, last.email, last.purpose) =
         {[NewOTP(nextId - 1, last.email, BcryptHash(Plain(last.code)),
                  last.purpose, now) EXCEPT !.expiresAt = now + 600]}
    /\ \A c \in Codes :
         \A r \in VerifyOutcomes(otps, now, last.email, c, last.purpose) :
           (r.result = "valid") <=> (c = last.code)

\* C17 (as claimed): no stored record, in either collection, holds the
\* code as createOTP returned it: the stored code is its bcrypt hash.
C17_NoPlaintextStored ==
  /\ \A d \in otps : d.code.alg = "bcrypt"
  /\ \A d \in otpRecords : d.otp.alg = "bcrypt"

\* C18 (as claimed): when sendOTPEmail has failed in a send or resend
\* handler, the response is not a success, the record the request created
\* is stored and eligible, and verifyOTP with its code returns valid=true.
C18_DispatchFailureKeepsRecord ==
  (last.op \in {"sendOTP", "resendOTP_controller", "handler_send"}
     /\ last.dispatch = "failed") =>
    /\ last.result # "200"
    /\ IF last.op = "handler_send"
         THEN /\ \E d \in OfKey(otpRecords, last.email, last.purpose) :
                   d.otp = Plain(last.code) /\ ~d.isUsed /\ d.expiresAt > now
              /\ \A r \in VerifyOutcomes_ts(otpRecords, now, last.email,
                                             last.code, last.purpose) :
                   r.result = "valid"
         ELSE /\ \E d \in OfKey(otps, last.email, last.purpose) :
                   Eligible(d, now) /\ BcryptCompare(Plain(last.code), d.code)
              /\ \A r \in VerifyOutcomes(otps, now, last.email,
                                          last.code, last.purpose) :
                   r.result = "valid"

\* C19 (as claimed): in the Next.js model, after 5 verifyOTP calls with a
\* wrong code against an unused, unexpired record, a 6th call with the
\* right code does not return valid=true.
C19_AttemptCap_ts ==
  \A d \in otpRecords : \A w, c \in Codes :
    (~d.isUsed /\ d.expiresAt > now /\ d.otp # Plain(w) /\ d.otp = Plain(c)) =>
      \A h \in VerifyRepeat_ts(otpRecords, now, d.email, w, d.purpose, 5) :
        \A r \in VerifyOutcomes_ts(h.db, now, d.email, c, d.purpose) :
          r.result # "valid"

\* C20 (as claimed): in the Next.js model, resendOTP less than 60 seconds
\* after a record of the key was created is rejected and leaves the
\* collection as it was.
C20_ResendCooldown_ts ==
  \A e \in Emails, p \in Purposes, c \in Codes :
    (\E d \in OfKey(otpRecords, e, p) : now - d.createdAt < 60 /\ now >= d.createdAt) =>
      /\ ResendResult_ts(otpRecords, now, nextId, e, p, c).result # "ok"
      /\ ResendResult_ts(otpRecords, now, nextId, e, p, c).db = otpRecords

\* C21: a verifyOTP call that finds no eligible record of the key, or that
\* finds a record with attempts >= 5, leaves every stored record as it was.
C21_RejectionWritesNothing ==
  \A e \in Emails, p \in Purposes, c \in Codes :
    /\ (\A d \in OfKey(otps, e, p) : d.isUsed \/ now >= d.expiresAt) =>
         \A r \in VerifyOutcomes(otps, now, e, c, p) :
           r.result = "not_found" /\ r.db = otps
    /\ \A r \in VerifyOutcomes(otps, now, e, c, p) :
         r.result \in {"not_found", "too_many"} => r.db = otps

\* verifyOTP has just returned "not found" for a wrong code against a key
\* whose record has expired, and the record still has attempts = 0
C21_Witness ==
  /\ last.op = "verifyOTP" /\ last.result = "not_found"
  /\ OfKey(otps, last.email, last.purpose) # {}
  /\ \A d \in OfKey(otps, last.email, last.purpose) :
       /\ now >= d.expiresAt /\ d.attempts = 0
       /\ ~BcryptCompare(Plain(last.code), d.code)

\* the collection after a sweep at time t
Swept(db, t) == db \ ExpiredOTPs(db, t)

\* C22: cleanupExpiredOTPs deletes exactly the records with expiresAt < now,
\* none of them eligible, and createOTP, verifyOTP and resendOTP return the
\* same, and leave the same collection up to a sweep, whether or not a
\* sweep has run before them.
C22_SweepIsHousekeeping ==
  /\ ExpiredOTPs(otps, now) = {d \in otps : d.expiresAt < now}
  /\ \A d \in ExpiredOTPs(otps, now) : ~Eligible(d, now)
  /\ \A e \in Emails, p \in Purposes, c \in Codes :
       LET swept == Swept(otps, now)
       IN  /\ {<<r.result, Swept(r.db, now)>> :
                 r \in VerifyOutcomes(otps, now, e, c, p)}
                = {<<r.result, Swept(r.db, now)>> :
                     r \in VerifyOutcomes(swept, now, e, c, p)}
           /\ CreateResult(otps, now, nextId, e, p, c).ok
                = CreateResult(swept, now, nextId, e, p, c).ok
           /\ Swept(CreateResult(otps, now, nextId, e, p, c).db, now)
                = Swept(CreateResult(swept, now, nextId, e, p, c).db, now)
           /\ ResendResult(otps, now, nextId, e, p, c).result
                = ResendResult(swept, now, nextId, e, p, c).result
           /\ Swept(ResendResult(otps, now, nextId, e, p, c).db, now)
                = Swept(ResendResult(swept, now, nextId, e, p, c).db, now)

\* a sweep has just deleted an expired record and left an eligible one
C22_Witness ==
  /\ last.op = "cleanupExpiredOTPs" /\ last.deleted >= 1
  /\ \E d \in otps : Eligible(d, now)

\* C23: a send-OTP request with purpose login or password_reset for an
\* address without a user is answered 404, and one with purpose signup for
\* an address with a user is answered 400; such a request creates, deletes
\* and changes no OTP record, and dispatches no email.
C23_SendRejects ==
  [][(/\ last'.op \in {"sendOTP", "handler_send"}
      /\ \/ last'.purpose \in {"login", "password_reset"} /\ last'.email \notin users
         \/ last'.purpose = "signup" /\ last'.email \in users)
     => /\ last'.result = (IF last'.purpose = "signup" THEN "400" ELSE "404")
        /\ otps' = otps
        /\ otpRecords' = otpRecords
        /\ last'.dispatch = "none"]_vars

\* a signup request refused for a registered address while records of the
\* address are stored
C23_Witness ==
  /\ last.op \in {"sendOTP", "handler_send"}
  /\ last.purpose = "signup"
  /\ last.email \in users
  /\ last.result = "400"
  /\ otps # {} \/ otpRecords # {}
\* C24: a verify handler issues a token only in a request of purpose login
\* whose verifyOTP call, made with the request's address and purpose, returned
\* valid=true (from a stored record of that key that was unused, unexpired
\* and held the submitted code) and whose address has a user; when verifyOTP
\* returns valid=false the handler answers 400 and issues no token.
C24_TokenOnlyForVerifiedLogin ==
  [][last'.op \in {"verifyOTP_controller", "handler_verify"} =>
       /\ last'.token =>
            /\ last'.purpose = "login"
            /\ last'.verification = "valid"
            /\ last'.email \in users
            /\ IF last'.op = "handler_verify"
                 THEN \E d \in OfKey(otpRecords, last'.email, "login") :
                        d.otp = Plain(last'.code) /\ ~d.isUsed /\ d.expiresAt > now
                 ELSE \E d \in OfKey(otps, last'.email, "login") :
                        Eligible(d, now) /\ BcryptCompare(Plain(last'.code), d.code)
       /\ last'.verification # "valid" => ~last'.token
       /\ last'.verification \notin {"valid", "threw"} => last'.result = "400"]_vars

\* a login request that was issued a token
C24_Witness ==
  /\ last.op = "handler_verify"
  /\ last.token
  /\ last.result = "200"
C26_IssuedOnlyAsSendAllows ==
  [][\A d \in (otps' \ otps) :
       /\ d.purpose \in {"login", "password_reset"} => d.email \in users
       /\ d.purpose = "signup" => d.email \notin users]_vars
\* C25 (as claimed): no record is redeemed twice: two verifyOTP calls that
\* have returned valid=true, of either model, have not read the same record.
C25_RedeemedOnce ==
  \A i, j \in Callers :
    (/\ i # j
     /\ calls[i].op \in {"verifyOTP", "verifyOTP_ts"} /\ calls[i].result = "valid"
     /\ calls[j].op \in {"verifyOTP", "verifyOTP_ts"} /\ calls[j].result = "valid")
    => {d.id : d \in calls[i].doc} # {d.id : d \in calls[j].doc}
\* C28 (as claimed): each user's followersCount is the number of stored
\* Follow records whose following is that user, and its followingCount the
\* number of those whose follower is that user.
C28_CountsMatchRecords ==
  \A u \in UserIds :
    /\ followersCount[u] = Cardinality({f \in follows : f.following = u})
    /\ followingCount[u] = Cardinality({f \in follows : f.follower = u})

\* C29 (as claimed): no user has more than one element in likes, an
\* element being the user's by its field user or, when that is not set, by
\* the id it was cast from; and likesCount is the length of likes.
C29_LikesAreASet ==
  /\ \A i, j \in 1..Len(likes) :
       i # j =>
         (IF likes[i].user = "undefined" THEN likes[i].id ELSE likes[i].user)
           # (IF likes[j].user = "undefined" THEN likes[j].id ELSE likes[j].user)
  /\ likesCount = Len(likes)
=============================================================================
